---- MODULE Spec2Model ----
(***************************************************************************)
(* A model of the two user managers and the catalog of the repository:     *)
(*   - the plain manager of src/tasks/auth_system.py (one hard-coded      *)
(*     password, the manager saves and loads itself), mode = "plain";     *)
(*   - the secure manager of src/tasks/task1 (salted hashes, UserStorage  *)
(*     for the XML file, the command loop of main.py), mode = "secure";   *)
(*   - the product catalog of src/tasks/task2, mode = "catalog".          *)
(* A Python str is the sequence of its code points (<<97, 98, 99>> is     *)
(* "abc"), so that comparison, lower(), isalnum() and the XML escaping    *)
(* are computed as Python computes them.  Messages of exceptions are      *)
(* labels; the Russian text of each is given where the label is raised.   *)
(***************************************************************************)
EXTENDS Integers, Sequences, FiniteSets, TLC

VARIABLES
    mode,   \* which program runs: "plain", "secure" or "catalog"
    users,  \* UserManager.users, a list of User records
    products, \* ProductCatalog.products, a list of Product records
    disk,   \* the content of the file the program saves to
    last,   \* the last call of the command loop: its arguments and outcome
    steps,  \* how many commands the loop has read
    loop    \* whether the command loop runs: "running" or "ended"

vars == <<mode, users, products, disk, last, steps, loop>>

\* At most this many users are held in the store.
MaxUsers == 2

\* At most this many products are held in the catalog.
MaxProducts == 2

\* A run of the command loop reads at most this many commands.
MaxSteps == 4

----------------------------------------------------------------------------
(* Python values *)

\* Python's None: no str holds a negative code point.
None == <<-1>>

\* The strings the commands draw their arguments from.
K_ab == <<97, 98>>
K_abc == <<97, 98, 99>>
K_zeb == <<122, 101, 98>>
\* "a\rc": three characters, the middle one a carriage return
K_cr == <<97, 13, 99>>

Keys == {K_ab, K_abc, K_zeb, K_cr}

\* "TRUE", "yes": texts of an authenticated field a file may hold
T_TRUE == <<84, 82, 85, 69>>
T_yes == <<121, 101, 115>>
T_true == <<116, 114, 117, 101>>
T_false == <<102, 97, 108, 115, 101>>

\* a < b for two str: by code point, a proper prefix first
RECURSIVE StrLess(_, _)
StrLess(a, b) ==
    IF Len(a) = 0 THEN Len(b) > 0
    ELSE IF Len(b) = 0 THEN FALSE
    ELSE IF a[1] # b[1] THEN a[1] < b[1]
    ELSE StrLess(Tail(a), Tail(b))

\* str.lower() on the ASCII range the model's strings are drawn from
lower(s) == [i \in 1..Len(s) |-> IF s[i] \in 65..90 THEN s[i] + 32 ELSE s[i]]

\* str.isalnum() on the ASCII range: not empty, letters and digits only
isalnum(s) ==
    /\ Len(s) > 0
    /\ \A i \in 1..Len(s) : s[i] \in (48..57) \cup (65..90) \cup (97..122)

\* str(b) of a bool: "True" or "False"
str_bool(b) == IF b THEN <<84, 114, 117, 101>> ELSE <<70, 97, 108, 115, 101>>

\* s.startswith(p)
startswith(s, p) == Len(p) <= Len(s) /\ SubSeq(s, 1, Len(p)) = p

\* whether str t occurs in str s
Contains(s, t) ==
    \E i \in 0..(Len(s) - Len(t)) : SubSeq(s, i + 1, i + Len(t)) = t

----------------------------------------------------------------------------
(* Outcomes of a call *)

NoText == << >>

\* The call raised exception `kind`, built with (who, msg).
Raise(kind, who, msg) == [kind |-> kind, who |-> who, msg |-> msg, text |-> NoText]

\* The call returned; `who` is the login of the User returned, `text` the str.
Return(who, text) == [kind |-> "ok", who |-> who, msg |-> "", text |-> text]

\* DataFormatError.__init__ handing only the message to Exception
DataFormatError_str_message_only(filename, message) == message

\* str() of a DataFormatError(filename, message): "'<filename>' -> <message>"
DataFormatError_str(filename, message) ==
    <<39>> \o filename \o <<39, 32, 45, 62, 32>> \o message

\* raise DataFormatError(filename, message): `msg` labels the message, `text`
\* holds str() of the exception.
DataFormatError(filename, msg, message) ==
    [Raise("DataFormatError", filename, msg)
        EXCEPT !.text = DataFormatError_str(filename, message)]

\* "некорректный формат данных", the message of a DataFormatError that is
\* built without one
M_default ==
    <<1085, 1077, 1082, 1086, 1088, 1088, 1077, 1082, 1090, 1085, 1099,
      1081, 32, 1092, 1086, 1088, 1084, 1072, 1090, 32, 1076, 1072, 1085,
      1085, 1099, 1093>>

\* "ошибка чтения файла: "
M_read ==
    <<1086, 1096, 1080, 1073, 1082, 1072, 32, 1095, 1090, 1077, 1085, 1080,
      1103, 32, 1092, 1072, 1081, 1083, 1072, 58, 32>>

\* "неполные данные пользователя"
M_incomplete ==
    <<1085, 1077, 1087, 1086, 1083, 1085, 1099, 1077, 32, 1076, 1072, 1085,
      1085, 1099, 1077, 32, 1087, 1086, 1083, 1100, 1079, 1086, 1074, 1072,
      1090, 1077, 1083, 1103>>

----------------------------------------------------------------------------
(* list.sort(key=lambda u: u.login): stable, ascending by login *)

RECURSIVE InsertByLogin(_, _)
InsertByLogin(s, u) ==
    IF Len(s) = 0 THEN <<u>>
    ELSE IF StrLess(u.login, Head(s).login) THEN <<u>> \o s
    ELSE <<Head(s)>> \o InsertByLogin(Tail(s), u)

RECURSIVE sort_by_login(_)
sort_by_login(s) ==
    IF Len(s) = 0 THEN << >>
    ELSE InsertByLogin(sort_by_login(SubSeq(s, 1, Len(s) - 1)), s[Len(s)])

----------------------------------------------------------------------------
(* The XML file, as xml.etree.ElementTree writes and parses it *)

\* A file: absent, not XML at all, or a root element holding the record
\* elements; a record element is the list of its children, each a tag with
\* the character data written between its start and end tags.
NoFile == [kind |-> "missing", root |-> << >>]
NotXml == [kind |-> "text", root |-> << >>]
XmlFile(root) == [kind |-> "xml", root |-> root]
Child(tag, data) == [tag |-> tag, data |-> data]

\* ElementTree's _escape_cdata: & < > become &amp; &lt; &gt;
RECURSIVE escape_cdata(_)
escape_cdata(t) ==
    IF \A i \in 1..Len(t) : t[i] \notin {38, 60, 62} THEN t
    ELSE (CASE t[1] = 38 -> <<38, 97, 109, 112, 59>>
            [] t[1] = 60 -> <<38, 108, 116, 59>>
            [] t[1] = 62 -> <<38, 103, 116, 59>>
            [] OTHER -> <<t[1]>>) \o escape_cdata(Tail(t))

\* What the serializer writes for an element's text: nothing for None and
\* for the empty str, the escaped text otherwise.
write_text(t) == IF t = None \/ Len(t) = 0 THEN << >> ELSE escape_cdata(t)

\* The Char production of XML 1.0.
XmlChar(c) ==
    \/ c \in {9, 10, 13}
    \/ c \in 32..55295
    \/ c \in 57344..65533
    \/ c \in 65536..1114111

\* Whether expat accepts the character data: legal characters, no "<", and
\* every "&" the start of &amp; &lt; or &gt; (the files of the model hold
\* no other reference).
well_formed(d) ==
    \A i \in 1..Len(d) :
        /\ XmlChar(d[i])
        /\ d[i] # 60
        /\ d[i] = 38 =>
             \E ref \in {<<38, 97, 109, 112, 59>>, <<38, 108, 116, 59>>, <<38, 103, 116, 59>>} :
                startswith(SubSeq(d, i, Len(d)), ref)

\* The text expat reports for well-formed character data: a line break
\* written "\r\n" or "\r" is read as "\n", a reference as its character.
RECURSIVE parse_cdata(_)
parse_cdata(d) ==
    IF \A i \in 1..Len(d) : d[i] \notin {38, 13} THEN d
    ELSE IF d[1] = 38 THEN
        IF startswith(d, <<38, 97, 109, 112, 59>>) THEN <<38>> \o parse_cdata(SubSeq(d, 6, Len(d)))
        ELSE IF startswith(d, <<38, 108, 116, 59>>) THEN <<60>> \o parse_cdata(SubSeq(d, 5, Len(d)))
        ELSE <<62>> \o parse_cdata(SubSeq(d, 5, Len(d)))
    ELSE IF d[1] = 13 THEN
        IF Len(d) >= 2 /\ d[2] = 10 THEN <<10>> \o parse_cdata(SubSeq(d, 3, Len(d)))
        ELSE <<10>> \o parse_cdata(Tail(d))
    ELSE <<d[1]>> \o parse_cdata(Tail(d))

\* Element.text after parsing: None for an element without character data.
element_text(d) == IF Len(d) = 0 THEN None ELSE parse_cdata(d)

\* ET.parse(filename): "FileNotFoundError", "ParseError" or "ok".
ET_parse(file) ==
    IF file.kind = "missing" THEN "FileNotFoundError"
    ELSE IF file.kind = "text" THEN "ParseError"
    ELSE IF \A i \in DOMAIN file.root : \A j \in DOMAIN file.root[i] :
                well_formed(file.root[i][j].data)
         THEN "ok"
    ELSE "ParseError"

\* "[Errno 2] No such file or directory: '"
E_nofile ==
    <<91, 69, 114, 114, 110, 111, 32, 50, 93, 32, 78, 111, 32, 115, 117,
      99, 104, 32, 102, 105, 108, 101, 32, 111, 114, 32, 100, 105, 114,
      101, 99, 116, 111, 114, 121, 58, 32, 39>>

\* "syntax error: line 1, column 0": expat on a file that starts with text
E_syntax ==
    <<115, 121, 110, 116, 97, 120, 32, 101, 114, 114, 111, 114, 58, 32,
      108, 105, 110, 101, 32, 49, 44, 32, 99, 111, 108, 117, 109, 110, 32,
      48>>

\* "not well-formed (invalid token)": expat on character data it refuses;
\* the line and column that follow in the message are left out
E_token ==
    <<110, 111, 116, 32, 119, 101, 108, 108, 45, 102, 111, 114, 109, 101,
      100, 32, 40, 105, 110, 118, 97, 108, 105, 100, 32, 116, 111, 107,
      101, 110, 41>>

\* str(e) of the exception ET.parse(filename) raised, in f"...: {e}"
str_e(filename, file) ==
    IF file.kind = "missing" THEN E_nofile \o filename \o <<39>>
    ELSE IF file.kind = "text" THEN E_syntax
    ELSE E_token

\* The value a loop "for element in user_element: if element.tag == tag:
\* x = element.text" leaves in x, which started as `init`.
RECURSIVE last_text(_, _, _)
last_text(elem, tag, init) ==
    IF Len(elem) = 0 THEN init
    ELSE IF elem[Len(elem)].tag = tag THEN element_text(elem[Len(elem)].data)
    ELSE last_text(SubSeq(elem, 1, Len(elem) - 1), tag, init)

\* The flag of the load functions with every text but 'false' read as True
parse_authenticated_truthy(elem) ==
    LET t == last_text(elem, "authenticated", None)
    IN  IF t = None THEN FALSE ELSE lower(t) # T_false

\* The flag the loops of both load functions leave in `authenticated`:
\* False without such a child, False when its text is None (AttributeError),
\* and text.lower() == 'true' otherwise.
parse_authenticated(elem) ==
    LET t == last_text(elem, "authenticated", None)
    IN  IF t = None THEN FALSE ELSE lower(t) = T_true

----------------------------------------------------------------------------
(* The plain manager: src/tasks/auth_system.py *)

\* "password123", the one password User.authenticate accepts
PASSWORD123 == <<112, 97, 115, 115, 119, 111, 114, 100, 49, 50, 51>>
\* "letmein", a password it does not accept
P_letmein == <<108, 101, 116, 109, 101, 105, 110>>

\* A User of the plain manager.
User(login, authenticated) == [login |-> login, authenticated |-> authenticated]

\* User._set_authenticated
set_authenticated(u, value) == [u EXCEPT !.authenticated = value]

\* "Пользователь '<login>': Доступ разрешён."
access_text(login) ==
    <<1055, 1086, 1083, 1100, 1079, 1086, 1074, 1072, 1090, 1077, 1083, 1100, 32, 39>>
    \o login
    \o <<39, 58, 32, 1044, 1086, 1089, 1090, 1091, 1087, 32, 1088, 1072, 1079, 1088,
         1077, 1096, 1105, 1085, 46>>

\* access_resource with its test of the flag inverted
access_resource_inverted(u) ==
    IF u.authenticated
    THEN Raise("UnauthorizedAccessError", u.login, "access denied")
    ELSE Return(u.login, access_text(u.login))

\* User.access_resource: the User is not changed.
\* UnauthorizedAccessError(login): "доступ запрещён"
access_resource(u) ==
    IF ~u.authenticated
    THEN Raise("UnauthorizedAccessError", u.login, "access denied")
    ELSE Return(u.login, access_text(u.login))

\* User.authenticate setting the flag before it tests the password
User_authenticate_unchecked(u, password) ==
    IF password = PASSWORD123
    THEN [user |-> set_authenticated(u, TRUE),
          result |-> Return(u.login, NoText)]
    ELSE [user |-> set_authenticated(u, TRUE),
          result |-> Raise("InvalidLoginError", u.login, "wrong password")]

\* User.authenticate of the plain manager: the User after the call and the
\* outcome.  InvalidLoginError(login, "неверный пароль")
User_authenticate(u, password) ==
    IF password = PASSWORD123
    THEN [user |-> set_authenticated(u, TRUE),
          result |-> Return(u.login, NoText)]
    ELSE [user |-> u,
          result |-> Raise("InvalidLoginError", u.login, "wrong password")]

\* User.logout inverting the flag instead of clearing it
User_logout_toggle(u) == set_authenticated(u, ~u.authenticated)

\* User.logout
User_logout(u) == set_authenticated(u, FALSE)

\* The index of the first User with this login, 0 without one: the loop
\* "for user in self.users: if user.login == login".
first_index(us, login) ==
    IF \E i \in DOMAIN us : us[i].login = login
    THEN CHOOSE i \in DOMAIN us :
            /\ us[i].login = login
            /\ \A j \in 1..(i - 1) : us[j].login # login
    ELSE 0

\* UserManager.add refusing a login of exactly 3 characters
add_off_by_one(us, login) ==
    IF Len(login) = 0 \/ Len(login) <= 3
    THEN [users |-> us, result |-> Raise("InvalidLoginError", login, "login too short")]
    ELSE IF \E i \in DOMAIN us : us[i].login = login
    THEN [users |-> us, result |-> Raise("InvalidLoginError", login, "login exists")]
    ELSE [users |-> sort_by_login(Append(us, User(login, FALSE))),
          result |-> Return(login, NoText)]

\* UserManager.add: the list after the call and the outcome.
\* InvalidLoginError(login, "логин должен быть не менее 3 символов"),
\* InvalidLoginError(login, "логин уже существует")
add(us, login) ==
    IF Len(login) = 0 \/ Len(login) < 3
    THEN [users |-> us, result |-> Raise("InvalidLoginError", login, "login too short")]
    ELSE IF \E i \in DOMAIN us : us[i].login = login
    THEN [users |-> us, result |-> Raise("InvalidLoginError", login, "login exists")]
    ELSE [users |-> sort_by_login(Append(us, User(login, FALSE))),
          result |-> Return(login, NoText)]

\* UserManager.find.  InvalidLoginError(login, "пользователь не найден")
find(us, login) ==
    IF first_index(us, login) # 0
    THEN Return(login, NoText)
    ELSE Raise("InvalidLoginError", login, "user not found")

\* UserManager.authenticate
authenticate(us, login, password) ==
    LET i == first_index(us, login)
    IN  IF i = 0 THEN [users |-> us, result |-> find(us, login)]
        ELSE LET r == User_authenticate(us[i], password)
             IN  [users |-> [us EXCEPT ![i] = r.user], result |-> r.result]

\* UserManager.logout
logout(us, login) ==
    LET i == first_index(us, login)
    IN  IF i = 0 THEN [users |-> us, result |-> find(us, login)]
        ELSE [users |-> [us EXCEPT ![i] = User_logout(us[i])],
              result |-> Return(login, NoText)]

\* The access command of main: find, then access_resource.
access(us, login) ==
    LET i == first_index(us, login)
    IN  IF i = 0 THEN find(us, login) ELSE access_resource(us[i])

\* UserManager.select_by_prefix comparing without regard to the case
select_by_prefix_lower(us, prefix) ==
    SelectSeq(us, LAMBDA u : startswith(lower(u.login), lower(prefix)))

\* UserManager.select_by_prefix: [user for user in self.users
\* if user.login.startswith(prefix)]
select_by_prefix(us, prefix) ==
    SelectSeq(us, LAMBDA u : startswith(u.login, prefix))

\* UserManager.save: the file written.
save(us) ==
    XmlFile([i \in DOMAIN us |->
        << Child("login", write_text(us[i].login)),
           Child("authenticated", write_text(lower(str_bool(us[i].authenticated)))) >>])

\* The list UserManager.load builds from the parsed root: an element
\* without a login (or with an empty one, whose text is None) is skipped.
RECURSIVE loaded_users(_)
loaded_users(root) ==
    IF Len(root) = 0 THEN << >>
    ELSE LET login == last_text(Head(root), "login", None)
         IN  (IF login # None
              THEN << User(login, parse_authenticated(Head(root))) >>
              ELSE << >>) \o loaded_users(Tail(root))

\* The list of a loop that ends at the first element without a login
RECURSIVE loaded_users_stop(_)
loaded_users_stop(root) ==
    IF Len(root) = 0 THEN << >>
    ELSE LET login == last_text(Head(root), "login", None)
         IN  IF login # None
             THEN << User(login, parse_authenticated(Head(root))) >>
                  \o loaded_users_stop(Tail(root))
             ELSE << >>

\* UserManager.load with `break` where the loop goes on to the next element
load_stopping(us, filename, file) ==
    IF ET_parse(file) # "ok"
    THEN [users |-> us,
          result |-> DataFormatError(filename, "read error",
                                     M_read \o str_e(filename, file))]
    ELSE [users |-> sort_by_login(loaded_users_stop(file.root)),
          result |-> Return(NoText, NoText)]

\* UserManager.load.  DataFormatError(filename, "ошибка чтения файла: ...")
load(us, filename, file) ==
    IF ET_parse(file) # "ok"
    THEN [users |-> us,
          result |-> DataFormatError(filename, "read error",
                                     M_read \o str_e(filename, file))]
    ELSE [users |-> sort_by_login(loaded_users(file.root)),
          result |-> Return(NoText, NoText)]

----------------------------------------------------------------------------
(* The secure manager: src/tasks/task1 *)

\* "abc", a password shorter than 6 characters
P_abc == <<97, 98, 99>>

Passwords == {PASSWORD123, P_letmein, P_abc}

\* generate_salt's default length
SaltLength == 16

\* The salts generate_salt returns in the model: "qqqqqqqqqqqqqqqq" and
\* "7777777777777777", two of the 62^16 strings secrets.choice can build.
generate_salt == {[i \in 1..SaltLength |-> c] : c \in {113, 55}}

\* The lower-case hexadecimal digit of d in 0..15
hexdigit(d) == IF d < 10 THEN 48 + d ELSE 87 + d

\* The hexadecimal dump of a str of one-byte characters.
hexdump(bytes) ==
    [i \in 1..(2 * Len(bytes)) |->
        IF i % 2 = 1 THEN hexdigit((bytes[(i + 1) \div 2] % 256) \div 16)
        ELSE hexdigit(bytes[i \div 2] % 16)]

\* The digests of the passwords and salts of the model.  SHA-256 is taken
\* to be free of collisions, and its hexdigest is modelled by the dump of
\* the bytes hashed, which like the digest is a non-empty str of 0-9a-f
\* that differs whenever password + salt differs.
Digest == [password \in Passwords, salt \in generate_salt |-> hexdump(password \o salt)]

\* hash_password
hash_password(password, salt) == Digest[password, salt]

\* A User of the secure manager.
SecureUser(login, password_hash, salt, authenticated) ==
    [login |-> login, password_hash |-> password_hash, salt |-> salt,
     authenticated |-> authenticated]

\* User.verify_password
verify_password(u, password) == hash_password(password, u.salt) = u.password_hash

\* User.authenticate logging the user out when the password is wrong
SecureUser_authenticate_reset(u, password) ==
    IF ~verify_password(u, password)
    THEN [user |-> set_authenticated(u, FALSE),
          result |-> Raise("InvalidLoginError", u.login, "wrong password")]
    ELSE [user |-> set_authenticated(u, TRUE),
          result |-> Return(u.login, NoText)]

\* User.authenticate of the secure manager.
\* InvalidLoginError(login, "неверный пароль")
SecureUser_authenticate(u, password) ==
    IF ~verify_password(u, password)
    THEN [user |-> u,
          result |-> Raise("InvalidLoginError", u.login, "wrong password")]
    ELSE [user |-> set_authenticated(u, TRUE),
          result |-> Return(u.login, NoText)]

\* User.change_password testing the new password after it has stored it
change_password_late_check(u, old_password, new_password, new_salt) ==
    IF ~verify_password(u, old_password)
    THEN [user |-> u,
          result |-> Raise("InvalidLoginError", u.login, "old password wrong")]
    ELSE IF Len(new_password) < 6
    THEN [user |-> [u EXCEPT !.password_hash = hash_password(new_password, new_salt),
                             !.salt = new_salt],
          result |-> Raise("InvalidPasswordError", NoText, "password too short")]
    ELSE [user |-> [u EXCEPT !.password_hash = hash_password(new_password, new_salt),
                             !.salt = new_salt],
          result |-> Return(u.login, NoText)]

\* User.change_password hashing with the salt it is about to replace
change_password_stale_hash(u, old_password, new_password, new_salt) ==
    IF ~verify_password(u, old_password)
    THEN [user |-> u,
          result |-> Raise("InvalidLoginError", u.login, "old password wrong")]
    ELSE IF Len(new_password) < 6
    THEN [user |-> u,
          result |-> Raise("InvalidPasswordError", NoText, "password too short")]
    ELSE [user |-> [u EXCEPT !.password_hash = hash_password(new_password, u.salt),
                             !.salt = new_salt],
          result |-> Return(u.login, NoText)]

\* User.change_password keeping the salt the record has
change_password_keep_salt(u, old_password, new_password, new_salt) ==
    IF ~verify_password(u, old_password)
    THEN [user |-> u,
          result |-> Raise("InvalidLoginError", u.login, "old password wrong")]
    ELSE IF Len(new_password) < 6
    THEN [user |-> u,
          result |-> Raise("InvalidPasswordError", NoText, "password too short")]
    ELSE [user |-> [u EXCEPT !.password_hash = hash_password(new_password, u.salt)],
          result |-> Return(u.login, NoText)]

\* User.change_password logging the user out when it has changed the password
change_password_logging_out(u, old_password, new_password, new_salt) ==
    IF ~verify_password(u, old_password)
    THEN [user |-> u,
          result |-> Raise("InvalidLoginError", u.login, "old password wrong")]
    ELSE IF Len(new_password) < 6
    THEN [user |-> u,
          result |-> Raise("InvalidPasswordError", NoText, "password too short")]
    ELSE [user |-> [u EXCEPT !.password_hash = hash_password(new_password, new_salt),
                             !.salt = new_salt,
                             !.authenticated = FALSE],
          result |-> Return(u.login, NoText)]

\* User.change_password with the salt generate_salt returned.
\* InvalidLoginError(login, "старый пароль неверен"),
\* InvalidPasswordError("пароль должен быть не менее 6 символов")
change_password(u, old_password, new_password, new_salt) ==
    IF ~verify_password(u, old_password)
    THEN [user |-> u,
          result |-> Raise("InvalidLoginError", u.login, "old password wrong")]
    ELSE IF Len(new_password) < 6
    THEN [user |-> u,
          result |-> Raise("InvalidPasswordError", NoText, "password too short")]
    ELSE [user |-> [u EXCEPT !.password_hash = hash_password(new_password, new_salt),
                             !.salt = new_salt],
          result |-> Return(u.login, NoText)]

\* UserManager.add_user without its loop over the logins of the list
add_user_no_unique(us, login, password, salt) ==
    IF Len(login) = 0 \/ Len(login) < 3
    THEN [users |-> us, result |-> Raise("InvalidLoginError", login, "login too short")]
    ELSE IF ~isalnum(login)
    THEN [users |-> us, result |-> Raise("InvalidLoginError", login, "login not alphanumeric")]
    ELSE IF Len(password) < 6
    THEN [users |-> us, result |-> Raise("InvalidPasswordError", NoText, "password too short")]
    ELSE [users |-> Append(us, SecureUser(login, hash_password(password, salt), salt,
                                          FALSE)),
          result |-> Return(login, NoText)]

\* UserManager.add_user with the salt generate_salt returned: the new User
\* is appended, the list is not sorted.
\* InvalidLoginError(login, "логин должен быть не менее 3 символов"),
\* InvalidLoginError(login, "логин должен содержать только буквы и цифры"),
\* InvalidPasswordError("пароль должен быть не менее 6 символов"),
\* InvalidLoginError(login, "логин уже существует")
add_user(us, login, password, salt) ==
    IF Len(login) = 0 \/ Len(login) < 3
    THEN [users |-> us, result |-> Raise("InvalidLoginError", login, "login too short")]
    ELSE IF ~isalnum(login)
    THEN [users |-> us, result |-> Raise("InvalidLoginError", login, "login not alphanumeric")]
    ELSE IF Len(password) < 6
    THEN [users |-> us, result |-> Raise("InvalidPasswordError", NoText, "password too short")]
    ELSE IF \E i \in DOMAIN us : us[i].login = login
    THEN [users |-> us, result |-> Raise("InvalidLoginError", login, "login exists")]
    ELSE [users |-> Append(us, SecureUser(login, hash_password(password, salt), salt,
                                          FALSE)),
          result |-> Return(login, NoText)]

\* UserManager.get_user_or_raise raising nothing for a login that is not there
get_user_or_raise_silent(us, login) == Return(login, NoText)

\* UserManager.get_user_or_raise (find_user is first_index).
\* InvalidLoginError(login, "пользователь не найден")
get_user_or_raise(us, login) ==
    IF first_index(us, login) # 0
    THEN Return(login, NoText)
    ELSE Raise("InvalidLoginError", login, "user not found")

\* UserManager.authenticate_user
authenticate_user(us, login, password) ==
    LET i == first_index(us, login)
    IN  IF i = 0 THEN [users |-> us, result |-> get_user_or_raise(us, login)]
        ELSE LET r == SecureUser_authenticate(us[i], password)
             IN  [users |-> [us EXCEPT ![i] = r.user], result |-> r.result]

\* UserManager.logout_user wiping the password hash of the record it logs out
logout_user_wiping(us, login) ==
    LET i == first_index(us, login)
    IN  IF i = 0 THEN [users |-> us, result |-> get_user_or_raise(us, login)]
        ELSE [users |-> [us EXCEPT ![i] = [User_logout(us[i]) EXCEPT !.password_hash = NoText]],
              result |-> Return(login, NoText)]

\* UserManager.logout_user
logout_user(us, login) ==
    LET i == first_index(us, login)
    IN  IF i = 0 THEN [users |-> us, result |-> get_user_or_raise(us, login)]
        ELSE [users |-> [us EXCEPT ![i] = User_logout(us[i])],
              result |-> Return(login, NoText)]

\* UserManager.change_user_password
change_user_password(us, login, old_password, new_password, new_salt) ==
    LET i == first_index(us, login)
    IN  IF i = 0 THEN [users |-> us, result |-> get_user_or_raise(us, login)]
        ELSE LET r == change_password(us[i], old_password, new_password, new_salt)
             IN  [users |-> [us EXCEPT ![i] = r.user], result |-> r.result]

\* The access command of main: get_user_or_raise, then access_resource.
access_user(us, login) ==
    LET i == first_index(us, login)
    IN  IF i = 0 THEN get_user_or_raise(us, login) ELSE access_resource(us[i])

\* UserManager.sort_users
sort_users(us) == sort_by_login(us)

\* UserStorage.save: the file written.
UserStorage_save(us) ==
    XmlFile([i \in DOMAIN us |->
        << Child("login", write_text(us[i].login)),
           Child("password_hash", write_text(us[i].password_hash)),
           Child("salt", write_text(us[i].salt)),
           Child("authenticated", write_text(lower(str_bool(us[i].authenticated)))) >>])

\* all([login, password_hash, salt]) for one parsed record element
complete(elem) ==
    /\ last_text(elem, "login", None) # None
    /\ last_text(elem, "password_hash", None) # None
    /\ last_text(elem, "salt", None) # None

\* UserStorage.load sorting the list it returns, as UserManager.load of the
\* plain manager does
UserStorage_load_sorted(filename, file) ==
    IF ET_parse(file) # "ok"
    THEN [users |-> << >>,
          result |-> DataFormatError(filename, "read error",
                                     M_read \o str_e(filename, file))]
    ELSE IF \E i \in DOMAIN file.root : ~complete(file.root[i])
    THEN [users |-> << >>,
          result |-> DataFormatError(filename, "incomplete user", M_incomplete)]
    ELSE [users |-> sort_by_login(
                       [i \in DOMAIN file.root |->
                        SecureUser(last_text(file.root[i], "login", None),
                                   last_text(file.root[i], "password_hash", None),
                                   last_text(file.root[i], "salt", None),
                                   parse_authenticated(file.root[i]))]),
          result |-> Return(NoText, NoText)]

\* UserStorage.load skipping a record element that is not complete, as
\* UserManager.load of the plain manager skips one without a login
UserStorage_load_skipping(filename, file) ==
    IF ET_parse(file) # "ok"
    THEN [users |-> << >>,
          result |-> DataFormatError(filename, "read error",
                                     M_read \o str_e(filename, file))]
    ELSE LET kept == SelectSeq(file.root, complete)
         IN  [users |-> [i \in DOMAIN kept |->
                          SecureUser(last_text(kept[i], "login", None),
                                     last_text(kept[i], "password_hash", None),
                                     last_text(kept[i], "salt", None),
                                     parse_authenticated(kept[i]))],
              result |-> Return(NoText, NoText)]

\* UserStorage.load: the list returned, or
\* DataFormatError(filename, "ошибка чтения файла: ..."),
\* DataFormatError(filename, "неполные данные пользователя")
UserStorage_load(filename, file) ==
    IF ET_parse(file) # "ok"
    THEN [users |-> << >>,
          result |-> DataFormatError(filename, "read error",
                                     M_read \o str_e(filename, file))]
    ELSE IF \E i \in DOMAIN file.root : ~complete(file.root[i])
    THEN [users |-> << >>,
          result |-> DataFormatError(filename, "incomplete user", M_incomplete)]
    ELSE [users |-> [i \in DOMAIN file.root |->
                        SecureUser(last_text(file.root[i], "login", None),
                                   last_text(file.root[i], "password_hash", None),
                                   last_text(file.root[i], "salt", None),
                                   parse_authenticated(file.root[i]))],
          result |-> Return(NoText, NoText)]

\* The load command emptying the manager's list before UserStorage.load
load_command_clearing(us, filename, file) ==
    LET r == UserStorage_load(filename, file)
    IN  IF r.result.kind # "ok" THEN [users |-> << >>, result |-> r.result]
        ELSE [users |-> sort_users(r.users), result |-> r.result]

\* The load command of main: the list replaces the manager's and is sorted;
\* a DataFormatError leaves the manager as it was.
load_command(us, filename, file) ==
    LET r == UserStorage_load(filename, file)
    IN  IF r.result.kind # "ok" THEN [users |-> us, result |-> r.result]
        ELSE [users |-> sort_users(r.users), result |-> r.result]

----------------------------------------------------------------------------
(* The product catalog: src/tasks/task2 *)

\* A Python float of the model: a number of tenths, or nan.
NaN == [kind |-> "nan", tenths |-> 0]
Float(t) == [kind |-> "num", tenths |-> t]

\* price <= 0 for a float: False for nan, as every comparison with nan is
le_zero(price) == price.kind = "num" /\ price.tenths <= 0

\* The decimal digits of a natural number.
RECURSIVE digits(_)
digits(n) == IF n < 10 THEN <<48 + n>> ELSE digits(n \div 10) \o <<48 + (n % 10)>>

\* The number a str of decimal digits denotes.
RECURSIVE number(_)
number(s) ==
    IF Len(s) = 0 THEN 0
    ELSE 10 * number(SubSeq(s, 1, Len(s) - 1)) + (s[Len(s)] - 48)

\* "nan"
T_nan == <<110, 97, 110>>

\* str(price) of a float: "nan", or the shortest decimal that reads back:
\* "10.5", "5.0", "-5.0"
str_float(price) ==
    IF price.kind = "nan" THEN T_nan
    ELSE LET a == IF price.tenths < 0 THEN 0 - price.tenths ELSE price.tenths
         IN  (IF price.tenths < 0 THEN <<45>> ELSE << >>)
             \o digits(a \div 10) \o <<46, 48 + (a % 10)>>

\* Whether a str is one or more decimal digits.
IsDigits(s) == Len(s) > 0 /\ \A i \in 1..Len(s) : s[i] \in 48..57

\* float(text) for the texts the model holds: None (TypeError), "nan" in any
\* case of the letters, digits with an optional "-" before them and an optional
\* "." and one digit after them; any other text of the model is no number
\* (ValueError).  `error` is "" when a float is returned.
float(text) ==
    IF text = None THEN [error |-> "TypeError", value |-> NaN]
    ELSE IF lower(text) = T_nan THEN [error |-> "", value |-> NaN]
    ELSE LET neg == Len(text) > 0 /\ text[1] = 45
             body == IF neg THEN Tail(text) ELSE text
             sign == IF neg THEN 0 - 1 ELSE 1
         IN  IF IsDigits(body)
             THEN [error |-> "", value |-> Float(sign * 10 * number(body))]
             ELSE IF /\ Len(body) >= 3
                     /\ body[Len(body) - 1] = 46
                     /\ IsDigits(SubSeq(body, 1, Len(body) - 2))
                     /\ body[Len(body)] \in 48..57
             THEN [error |-> "",
                   value |-> Float(sign * (10 * number(SubSeq(body, 1, Len(body) - 2))
                                           + (body[Len(body)] - 48)))]
             ELSE [error |-> "ValueError", value |-> NaN]

\* "цена должна быть больше 0"
M_price ==
    <<1094, 1077, 1085, 1072, 32, 1076, 1086, 1083, 1078, 1085, 1072, 32,
      1073, 1099, 1090, 1100, 32, 1073, 1086, 1083, 1100, 1096, 1077, 32,
      48>>

\* "магазин не найден", the default message of StoreNotFoundError
M_store ==
    <<1084, 1072, 1075, 1072, 1079, 1080, 1085, 32, 1085, 1077, 32, 1085,
      1072, 1081, 1076, 1077, 1085>>

\* "Название товара и магазин не могут быть пустыми"
M_empty ==
    <<1053, 1072, 1079, 1074, 1072, 1085, 1080, 1077, 32, 1090, 1086, 1074,
      1072, 1088, 1072, 32, 1080, 32, 1084, 1072, 1075, 1072, 1079, 1080,
      1085, 32, 1085, 1077, 32, 1084, 1086, 1075, 1091, 1090, 32, 1073,
      1099, 1090, 1100, 32, 1087, 1091, 1089, 1090, 1099, 1084, 1080>>

\* str() of the exceptions of task2 that are built with a value and a
\* message: "'<value>' -> <message>"
task2_str(value, message) == <<39>> \o value \o <<39, 32, 45, 62, 32>> \o message

\* raise InvalidPriceError(price, "цена должна быть больше 0")
InvalidPriceError(price) ==
    [Raise("InvalidPriceError", str_float(price), "price not positive")
        EXCEPT !.text = task2_str(str_float(price), M_price)]

\* raise StoreNotFoundError(store)
StoreNotFoundError(store) ==
    [Raise("StoreNotFoundError", store, "store not found")
        EXCEPT !.text = task2_str(store, M_store)]

\* A Product that __post_init__ has accepted.
Product(name, store, price) == [name |-> name, store |-> store, price |-> price]

\* list.sort(key=lambda p: p.store): stable, ascending by store
RECURSIVE InsertByStore(_, _)
InsertByStore(s, p) ==
    IF Len(s) = 0 THEN <<p>>
    ELSE IF StrLess(p.store, Head(s).store) THEN <<p>> \o s
    ELSE <<Head(s)>> \o InsertByStore(Tail(s), p)

RECURSIVE sort_by_store(_)
sort_by_store(s) ==
    IF Len(s) = 0 THEN << >>
    ELSE InsertByStore(sort_by_store(SubSeq(s, 1, Len(s) - 1)), s[Len(s)])

\* ProductCatalog.add without the sort after the append
ProductCatalog_add_unsorted(ps, name, store, price) ==
    IF Len(name) = 0 \/ Len(store) = 0
    THEN [products |-> ps,
          result |-> [Raise("ValueError", NoText, "empty name") EXCEPT !.text = M_empty]]
    ELSE IF le_zero(price)
    THEN [products |-> ps, result |-> InvalidPriceError(price)]
    ELSE [products |-> Append(ps, Product(name, store, price)),
          result |-> Return(name, NoText)]

\* ProductCatalog.add: the list after the call and the outcome; Product's
\* __post_init__ makes the test of the price a second time.
ProductCatalog_add(ps, name, store, price) ==
    IF Len(name) = 0 \/ Len(store) = 0
    THEN [products |-> ps,
          result |-> [Raise("ValueError", NoText, "empty name") EXCEPT !.text = M_empty]]
    ELSE IF le_zero(price)
    THEN [products |-> ps, result |-> InvalidPriceError(price)]
    ELSE [products |-> sort_by_store(Append(ps, Product(name, store, price))),
          result |-> Return(name, NoText)]

\* ProductCatalog.select comparing the stores as they are written
ProductCatalog_select_exact(ps, store) ==
    LET result == SelectSeq(ps, LAMBDA p : p.store = store)
    IN  IF Len(store) = 0
        THEN [rows |-> << >>, result |-> Raise("ValueError", NoText, "empty store")]
        ELSE IF Len(result) = 0
        THEN [rows |-> << >>, result |-> StoreNotFoundError(store)]
        ELSE [rows |-> result, result |-> Return(NoText, NoText)]

\* ProductCatalog.select: the list returned and the outcome.
\* ValueError("Название магазина не может быть пустым")
ProductCatalog_select(ps, store) ==
    LET result == SelectSeq(ps, LAMBDA p : lower(p.store) = lower(store))
    IN  IF Len(store) = 0
        THEN [rows |-> << >>, result |-> Raise("ValueError", NoText, "empty store")]
        ELSE IF Len(result) = 0
        THEN [rows |-> << >>, result |-> StoreNotFoundError(store)]
        ELSE [rows |-> result, result |-> Return(NoText, NoText)]

\* "ошибка данных: "
M_data ==
    <<1086, 1096, 1080, 1073, 1082, 1072, 32, 1076, 1072, 1085, 1085, 1099,
      1093, 58, 32>>

\* "некорректная цена: "
M_bad_price ==
    <<1085, 1077, 1082, 1086, 1088, 1088, 1077, 1082, 1090, 1085, 1072,
      1103, 32, 1094, 1077, 1085, 1072, 58, 32>>

\* "'NoneType' object has no attribute 'text'": str of the AttributeError
E_notext ==
    <<39, 78, 111, 110, 101, 84, 121, 112, 101, 39, 32, 111, 98, 106, 101,
      99, 116, 32, 104, 97, 115, 32, 110, 111, 32, 97, 116, 116, 114, 105,
      98, 117, 116, 101, 32, 39, 116, 101, 120, 116, 39>>

\* "could not convert string to float: ": str of float's ValueError, which
\* ends with the repr of the text
E_float ==
    <<99, 111, 117, 108, 100, 32, 110, 111, 116, 32, 99, 111, 110, 118,
      101, 114, 116, 32, 115, 116, 114, 105, 110, 103, 32, 116, 111, 32,
      102, 108, 111, 97, 116, 58, 32>>

\* "float() argument must be a string or a real number, not 'NoneType'"
E_floatnone ==
    <<102, 108, 111, 97, 116, 40, 41, 32, 97, 114, 103, 117, 109, 101, 110,
      116, 32, 109, 117, 115, 116, 32, 98, 101, 32, 97, 32, 115, 116, 114,
      105, 110, 103, 32, 111, 114, 32, 97, 32, 114, 101, 97, 108, 32, 110,
      117, 109, 98, 101, 114, 44, 32, 110, 111, 116, 32, 39, 78, 111, 110,
      101, 84, 121, 112, 101, 39>>

\* The ValueError of float(text)
float_ValueError(text) ==
    [Raise("ValueError", NoText, "not a float")
        EXCEPT !.text = E_float \o <<39>> \o text \o <<39>>]

\* ProductStorage.save: the file written.
ProductStorage_save(ps) ==
    XmlFile([i \in DOMAIN ps |->
        << Child("name", write_text(ps[i].name)),
           Child("store", write_text(ps[i].store)),
           Child("price", write_text(str_float(ps[i].price))) >>])

\* What find(tag) returns when the element has no such child.
Missing == <<-2>>

\* product_element.find(tag).text: the text of the first child with the tag;
\* Missing stands for the AttributeError of None.text.
find_text(elem, tag) ==
    IF \E j \in DOMAIN elem : elem[j].tag = tag
    THEN element_text(elem[CHOOSE j \in DOMAIN elem :
                              /\ elem[j].tag = tag
                              /\ \A k \in 1..(j - 1) : elem[k].tag # tag].data)
    ELSE Missing

\* The body of the loop of ProductStorage.load for one product element: the
\* exception it raises ("" for none) and the Product it appends.
load_product(elem) ==
    LET name == find_text(elem, "name")
        store == find_text(elem, "store")
        price == find_text(elem, "price")
    IN  IF name = Missing \/ store = Missing \/ price = Missing
        THEN [error |-> "AttributeError", product |-> Product(name, store, NaN)]
        ELSE IF float(price).error # ""
        THEN [error |-> float(price).error, product |-> Product(name, store, NaN)]
        ELSE IF le_zero(float(price).value)
        THEN [error |-> "InvalidPriceError",
              product |-> Product(name, store, float(price).value)]
        ELSE [error |-> "", product |-> Product(name, store, float(price).value)]

\* The exception ProductStorage.load raises for the product element whose
\* loop body raised: a DataFormatError for AttributeError, ValueError and
\* InvalidPriceError; a TypeError, which no except clause names, as it is.
load_product_error(filename, elem) ==
    LET r == load_product(elem)
    IN  CASE r.error = "AttributeError" ->
                DataFormatError(filename, "data error", M_data \o E_notext)
          [] r.error = "ValueError" ->
                DataFormatError(filename, "data error",
                    M_data \o float_ValueError(find_text(elem, "price")).text)
          [] r.error = "InvalidPriceError" ->
                DataFormatError(filename, "bad price",
                    M_bad_price \o InvalidPriceError(r.product.price).text)
          [] r.error = "TypeError" ->
                [Raise("TypeError", NoText, "float of None") EXCEPT !.text = E_floatnone]

\* ProductStorage.load: the list returned, or the exception of the first
\* product element whose loop body raises.
ProductStorage_load(filename, file) ==
    IF ET_parse(file) # "ok"
    THEN [products |-> << >>,
          result |-> DataFormatError(filename, "read error",
                                     M_read \o str_e(filename, file))]
    ELSE IF \E i \in DOMAIN file.root : load_product(file.root[i]).error # ""
    THEN [products |-> << >>,
          result |-> load_product_error(filename,
                        file.root[CHOOSE i \in DOMAIN file.root :
                            /\ load_product(file.root[i]).error # ""
                            /\ \A k \in 1..(i - 1) : load_product(file.root[k]).error = ""])]
    ELSE [products |-> [i \in DOMAIN file.root |-> load_product(file.root[i]).product],
          result |-> Return(NoText, NoText)]

\* The load command of main: the list returned replaces the catalog's and
\* is sorted by store; an exception leaves the catalog as it was.
catalog_load_command(ps, filename, file) ==
    LET r == ProductStorage_load(filename, file)
    IN  IF r.result.kind # "ok" THEN [products |-> ps, result |-> r.result]
        ELSE [products |-> sort_by_store(r.products), result |-> r.result]

----------------------------------------------------------------------------
(* The files the load command can name *)

\* "o.xml", the file the save command writes
F_out == <<111, 46, 120, 109, 108>>
\* "n.xml", a file that does not exist
F_none == <<110, 46, 120, 109, 108>>
\* "t.xml", a file that holds the text "Это не XML файл", no XML
F_text == <<116, 46, 120, 109, 108>>
\* "d.xml", a file written by hand with the login "abc" twice
F_dup == <<100, 46, 120, 109, 108>>
\* "h.xml", a file written by hand with a record that lacks a field
F_hand == <<104, 46, 120, 109, 108>>
\* "f.xml", a file written by hand with the flag "yes" and without a flag
F_flag == <<102, 46, 120, 109, 108>>
\* "g.xml", a file written by hand with the flag "TRUE" and an empty flag
F_case == <<103, 46, 120, 109, 108>>

FileNames == {F_out, F_none, F_text, F_dup, F_hand, F_flag, F_case}

Salt_q == [i \in 1..SaltLength |-> 113]
Salt_7 == [i \in 1..SaltLength |-> 55]

\* d.xml as the plain manager finds it
PlainDup ==
    XmlFile(<< << Child("login", K_abc), Child("authenticated", T_true) >>,
               << Child("login", K_abc), Child("authenticated", T_false) >> >>)

\* h.xml as the plain manager finds it
PlainHand ==
    XmlFile(<< << Child("authenticated", T_true) >>,
               << Child("login", K_ab), Child("authenticated", T_TRUE) >>,
               << Child("login", << >>), Child("authenticated", T_true) >> >>)

\* d.xml as the secure manager finds it
SecureDup ==
    XmlFile(<< << Child("login", K_abc),
                  Child("password_hash", hash_password(PASSWORD123, Salt_q)),
                  Child("salt", Salt_q),
                  Child("authenticated", T_true) >>,
               << Child("login", K_abc),
                  Child("password_hash", hash_password(P_letmein, Salt_7)),
                  Child("salt", Salt_7),
                  Child("authenticated", T_false) >> >>)

\* h.xml as the secure manager finds it
SecureHand ==
    XmlFile(<< << Child("login", K_zeb),
                  Child("password_hash", hash_password(PASSWORD123, Salt_q)),
                  Child("salt", Salt_q),
                  Child("authenticated", T_yes) >>,
               << Child("login", K_abc),
                  Child("password_hash", hash_password(PASSWORD123, Salt_q)),
                  Child("authenticated", T_true) >>,
               << Child("login", << >>),
                  Child("password_hash", hash_password(PASSWORD123, Salt_q)),
                  Child("salt", Salt_q),
                  Child("authenticated", T_true) >> >>)

\* f.xml as the plain manager finds it
PlainFlag ==
    XmlFile(<< << Child("login", K_abc), Child("authenticated", T_yes) >>,
               << Child("login", K_zeb) >> >>)

\* g.xml as the plain manager finds it
PlainCase ==
    XmlFile(<< << Child("login", K_abc), Child("authenticated", T_TRUE) >>,
               << Child("login", K_zeb), Child("authenticated", << >>) >> >>)

\* f.xml as the secure manager finds it
SecureFlag ==
    XmlFile(<< << Child("login", K_abc),
                  Child("password_hash", hash_password(PASSWORD123, Salt_q)),
                  Child("salt", Salt_q),
                  Child("authenticated", T_yes) >>,
               << Child("login", K_zeb),
                  Child("password_hash", hash_password(PASSWORD123, Salt_q)),
                  Child("salt", Salt_q) >> >>)

\* g.xml as the secure manager finds it
SecureCase ==
    XmlFile(<< << Child("login", K_abc),
                  Child("password_hash", hash_password(PASSWORD123, Salt_q)),
                  Child("salt", Salt_q),
                  Child("authenticated", T_TRUE) >>,
               << Child("login", K_zeb),
                  Child("password_hash", hash_password(PASSWORD123, Salt_q)),
                  Child("salt", Salt_q),
                  Child("authenticated", << >>) >> >>)

\* The files that were not written by the program.
HandWritten(m, filename) ==
    CASE filename = F_none -> NoFile
      [] filename = F_text -> NotXml
      [] filename = F_dup -> IF m = "plain" THEN PlainDup ELSE SecureDup
      [] filename = F_hand -> IF m = "plain" THEN PlainHand ELSE SecureHand
      [] filename = F_flag -> IF m = "plain" THEN PlainFlag ELSE SecureFlag
      [] filename = F_case -> IF m = "plain" THEN PlainCase ELSE SecureCase

\* What open(filename) finds.
FileAt(m, d, filename) == IF filename = F_out THEN d ELSE HandWritten(m, filename)

----------------------------------------------------------------------------
(* What the commands of the catalog are given *)

\* "s.xml", a file written by hand with two products
F_shop == <<115, 46, 120, 109, 108>>
\* "z.xml", written by hand with a price of 0
F_zero == <<122, 46, 120, 109, 108>>
\* "v.xml", written by hand with a price of -5
F_neg == <<118, 46, 120, 109, 108>>
\* "l.xml", written by hand with a product element without a store
F_lack == <<108, 46, 120, 109, 108>>
\* "w.xml", written by hand with the price "abc"
F_word == <<119, 46, 120, 109, 108>>
\* "e.xml", written by hand with an empty price
F_blank == <<101, 46, 120, 109, 108>>
\* "q.xml", written by hand with the price "nan"
F_nan == <<113, 46, 120, 109, 108>>

ProductFileNames ==
    {F_out, F_none, F_text, F_shop, F_zero, F_neg, F_lack, F_word, F_blank, F_nan}

\* "Tea", "tea", "milk" and "a\x01b", a name with a control character
N_Tea == <<84, 101, 97>>
N_tea == <<116, 101, 97>>
N_milk == <<109, 105, 108, 107>>
N_ctl == <<97, 1, 98>>
\* "lenta", "Ashan", "ashan", "ASHAN", "dixy"
S_lenta == <<108, 101, 110, 116, 97>>
S_Ashan == <<65, 115, 104, 97, 110>>
S_ashan == <<97, 115, 104, 97, 110>>
S_ASHAN == <<65, 83, 72, 65, 78>>
S_dixy == <<100, 105, 120, 121>>
\* "10.5", "5", "0", "-5", "NaN", "abc"
P_10_5 == <<49, 48, 46, 53>>
P_5 == <<53>>
P_0 == <<48>>
P_neg == <<45, 53>>
P_NaN == <<78, 97, 78>>
P_word == <<97, 98, 99>>

\* A product element as a file holds it.
ProductElement(name, store, price) ==
    << Child("name", name), Child("store", store), Child("price", price) >>

\* The files of the catalog that were not written by the program.
ProductHandWritten(filename) ==
    CASE filename = F_none -> NoFile
      [] filename = F_text -> NotXml
      [] filename = F_shop ->
            XmlFile(<< ProductElement(N_milk, S_lenta, P_5),
                       ProductElement(N_tea, S_Ashan, P_10_5) >>)
      [] filename = F_zero ->
            XmlFile(<< ProductElement(N_tea, S_lenta, P_10_5),
                       ProductElement(N_milk, S_ashan, P_0) >>)
      [] filename = F_neg ->
            XmlFile(<< ProductElement(N_milk, S_ashan, P_neg) >>)
      [] filename = F_lack ->
            XmlFile(<< ProductElement(N_tea, S_lenta, P_10_5),
                       << Child("name", N_milk), Child("price", P_5) >> >>)
      [] filename = F_word ->
            XmlFile(<< ProductElement(N_tea, S_lenta, P_word) >>)
      [] filename = F_blank ->
            XmlFile(<< ProductElement(N_tea, S_lenta, P_10_5),
                       ProductElement(N_milk, S_ashan, << >>) >>)
      [] filename = F_nan ->
            XmlFile(<< ProductElement(N_tea, S_lenta, T_nan) >>)

\* What open(filename) finds when the catalog runs.
ProductFileAt(d, filename) ==
    IF filename = F_out THEN d ELSE ProductHandWritten(filename)

----------------------------------------------------------------------------
(* The command loops *)

\* What is known of a call: the command, its arguments, whether the login
\* was in the list, the outcome, the list a select returned (`rows`) and
\* the salt generate_salt returned in it (`salt`, NoText when not called).
Call(op, key, cred, new, found, result) ==
    [op |-> op, key |-> key, cred |-> cred, new |-> new, found |-> found,
     result |-> result, rows |-> << >>, salt |-> NoText]

\* Whether a User with this login is in the list.
Has(us, login) == first_index(us, login) # 0

\* The except clauses of a main without its last one, `except Exception`
Handlers_named_only(m) ==
    << [names |-> {"KeyboardInterrupt"}, breaks |-> TRUE],
       [names |-> {"UnknownCommandError", "UnauthorizedAccessError",
                   "InvalidLoginError", "InvalidPasswordError", "DataFormatError",
                   "InvalidPriceError", "StoreNotFoundError"}, breaks |-> FALSE] >>

\* The classes the except clauses of the three mains name, in the order of
\* the clauses, and whether the clause ends with break.  "Exception" stands
\* for `except Exception`.
Handlers(m) ==
    << [names |-> {"KeyboardInterrupt"}, breaks |-> TRUE],
       [names |-> {"UnknownCommandError"}, breaks |-> FALSE] >>
    \o (CASE m = "plain" ->
                << [names |-> {"UnauthorizedAccessError"}, breaks |-> FALSE],
                   [names |-> {"InvalidLoginError", "DataFormatError"}, breaks |-> FALSE] >>
           [] m = "secure" ->
                << [names |-> {"InvalidLoginError"}, breaks |-> FALSE],
                   [names |-> {"UnauthorizedAccessError"}, breaks |-> FALSE],
                   [names |-> {"InvalidPasswordError"}, breaks |-> FALSE],
                   [names |-> {"DataFormatError"}, breaks |-> FALSE] >>
           [] m = "catalog" ->
                << [names |-> {"InvalidPriceError", "StoreNotFoundError",
                               "DataFormatError"}, breaks |-> FALSE] >>)
    \o << [names |-> {"Exception"}, breaks |-> FALSE] >>

\* Whether an except clause catches an exception of the class.  Every
\* class the programs raise is a subclass of Exception but
\* KeyboardInterrupt, which derives from BaseException.
Catches(h, kind) ==
    \/ kind \in h.names
    \/ ("Exception" \in h.names /\ kind # "KeyboardInterrupt")

\* The try statements inside the branches of the catalog's add and select
\* commands, which print the exception.
caught_in_command(m, op, kind) ==
    /\ m = "catalog"
    /\ \/ (op = "add_product" /\ kind \in {"InvalidPriceError", "ValueError"})
       \/ (op = "select_store" /\ kind = "StoreNotFoundError")

\* Where the loop is after a command: ended by the break of exit, running
\* after a command that returned and after an exception that a clause
\* without break caught, ended by the break of the clause for
\* KeyboardInterrupt and by an exception no clause catches.
after_command(m, op, kind) ==
    IF op = "exit" THEN "ended"
    ELSE IF kind = "ok" \/ caught_in_command(m, op, kind) THEN "running"
    ELSE LET hs == Handlers(m)
             catching == {i \in DOMAIN hs : Catches(hs[i], kind)}
         IN  IF catching = {} THEN "ended"
             ELSE IF hs[CHOOSE i \in catching : \A j \in catching : i <= j].breaks
             THEN "ended"
             ELSE "running"

\* input(">>> ") returns one more command, while the loop runs.
ReadCommand == loop = "running" /\ steps < MaxSteps /\ steps' = steps + 1

\* The except clauses of main have handled what the command raised.
Handled == loop' = after_command(mode, last'.op, last'.result.kind)

Init ==
    /\ mode \in {"plain", "secure", "catalog"}
    /\ users = << >>
    /\ products = << >>
    /\ disk = NoFile
    /\ steps = 0
    /\ loop = "running"
    /\ last = Call("start", NoText, NoText, NoText, FALSE, Return(NoText, NoText))

\* plain: add <login>
Add(login) ==
    /\ mode = "plain"
    /\ ReadCommand
    /\ LET r == add(users, login)
       IN  /\ Len(r.users) <= MaxUsers
           /\ users' = r.users
           /\ last' = Call("add", login, NoText, NoText, Has(users, login), r.result)
    /\ UNCHANGED <<mode, products, disk>>
    /\ Handled

\* plain: auth <login> <password>
Auth(login, password) ==
    /\ mode = "plain"
    /\ ReadCommand
    /\ LET r == authenticate(users, login, password)
       IN  /\ users' = r.users
           /\ last' = Call("auth", login, password, NoText, Has(users, login), r.result)
    /\ UNCHANGED <<mode, products, disk>>
    /\ Handled

\* plain: logout <login>
Logout(login) ==
    /\ mode = "plain"
    /\ ReadCommand
    /\ LET r == logout(users, login)
       IN  /\ users' = r.users
           /\ last' = Call("logout", login, NoText, NoText, Has(users, login), r.result)
    /\ UNCHANGED <<mode, products, disk>>
    /\ Handled

\* plain: access <login>
Access(login) ==
    /\ mode = "plain"
    /\ ReadCommand
    /\ last' = Call("access", login, NoText, NoText, Has(users, login),
                    access(users, login))
    /\ UNCHANGED <<mode, users, products, disk>>
    /\ Handled

\* plain: select <prefix>
Select(prefix) ==
    /\ mode = "plain"
    /\ ReadCommand
    /\ last' = [Call("select", prefix, NoText, NoText, FALSE, Return(NoText, NoText))
                  EXCEPT !.rows = select_by_prefix(users, prefix)]
    /\ UNCHANGED <<mode, users, products, disk>>
    /\ Handled

\* plain: save o.xml
Save ==
    /\ mode = "plain"
    /\ ReadCommand
    /\ disk' = save(users)
    /\ last' = Call("save", F_out, NoText, NoText, FALSE, Return(NoText, NoText))
    /\ UNCHANGED <<mode, products, users>>
    /\ Handled

\* plain: load <file>
Load(filename) ==
    /\ mode = "plain"
    /\ ReadCommand
    /\ LET r == load(users, filename, FileAt(mode, disk, filename))
       IN  /\ Len(r.users) <= MaxUsers
           /\ users' = r.users
           /\ last' = Call("load", filename, NoText, NoText, FALSE, r.result)
    /\ UNCHANGED <<mode, products, disk>>
    /\ Handled

\* secure: add <login>, with the password typed twice
AddUser(login, password) ==
    /\ mode = "secure"
    /\ ReadCommand
    /\ \E salt \in generate_salt :
        LET r == add_user(users, login, password, salt)
        IN  /\ Len(r.users) <= MaxUsers
            /\ users' = r.users
            /\ last' = [Call("add", login, password, NoText, Has(users, login), r.result)
                          EXCEPT !.salt = IF r.result.kind = "ok" THEN salt ELSE NoText]
    /\ UNCHANGED <<mode, products, disk>>
    /\ Handled

\* secure: auth <login>
AuthUser(login, password) ==
    /\ mode = "secure"
    /\ ReadCommand
    /\ LET r == authenticate_user(users, login, password)
       IN  /\ users' = r.users
           /\ last' = Call("auth", login, password, NoText, Has(users, login), r.result)
    /\ UNCHANGED <<mode, products, disk>>
    /\ Handled

\* secure: logout <login>
LogoutUser(login) ==
    /\ mode = "secure"
    /\ ReadCommand
    /\ LET r == logout_user(users, login)
       IN  /\ users' = r.users
           /\ last' = Call("logout", login, NoText, NoText, Has(users, login), r.result)
    /\ UNCHANGED <<mode, products, disk>>
    /\ Handled

\* secure: access <login>
AccessUser(login) ==
    /\ mode = "secure"
    /\ ReadCommand
    /\ last' = Call("access", login, NoText, NoText, Has(users, login),
                    access_user(users, login))
    /\ UNCHANGED <<mode, users, products, disk>>
    /\ Handled

\* secure: changepass <login>, with the new password typed twice
ChangePass(login, old_password, new_password) ==
    /\ mode = "secure"
    /\ ReadCommand
    /\ \E salt \in generate_salt :
        LET r == change_user_password(users, login, old_password, new_password, salt)
        IN  /\ users' = r.users
            /\ last' = [Call("changepass", login, old_password, new_password,
                             Has(users, login), r.result)
                          EXCEPT !.salt = IF r.result.kind = "ok" THEN salt ELSE NoText]
    /\ UNCHANGED <<mode, products, disk>>
    /\ Handled

\* secure: list, which sorts the manager's list before printing it
List ==
    /\ mode = "secure"
    /\ ReadCommand
    /\ users' = sort_users(users)
    /\ last' = Call("list", NoText, NoText, NoText, FALSE, Return(NoText, NoText))
    /\ UNCHANGED <<mode, products, disk>>
    /\ Handled

\* secure: save o.xml
SaveUsers ==
    /\ mode = "secure"
    /\ ReadCommand
    /\ disk' = UserStorage_save(users)
    /\ last' = Call("save", F_out, NoText, NoText, FALSE, Return(NoText, NoText))
    /\ UNCHANGED <<mode, products, users>>
    /\ Handled

\* secure: load <file>
LoadUsers(filename) ==
    /\ mode = "secure"
    /\ ReadCommand
    /\ LET r == load_command(users, filename, FileAt(mode, disk, filename))
       IN  /\ Len(r.users) <= MaxUsers
           /\ users' = r.users
           /\ last' = Call("load", filename, NoText, NoText, FALSE, r.result)
    /\ UNCHANGED <<mode, products, disk>>
    /\ Handled

\* catalog: add <name> <store> <price>; the command is lowered before it
\* is split, and float's ValueError is caught with InvalidPriceError
AddProduct(name, store, text) ==
    /\ mode = "catalog"
    /\ ReadCommand
    /\ LET price == float(lower(text))
           r == IF price.error # ""
                THEN [products |-> products, result |-> float_ValueError(lower(text))]
                ELSE ProductCatalog_add(products, lower(name), lower(store), price.value)
       IN  /\ Len(r.products) <= MaxProducts
           /\ products' = r.products
           /\ last' = Call("add_product", lower(name), lower(store), lower(text),
                           FALSE, r.result)
    /\ UNCHANGED <<mode, users, disk>>
    /\ Handled

\* catalog: select <store>
SelectStore(store) ==
    /\ mode = "catalog"
    /\ ReadCommand
    /\ LET r == ProductCatalog_select(products, lower(store))
       IN  last' = [Call("select_store", lower(store), NoText, NoText, FALSE, r.result)
                      EXCEPT !.rows = r.rows]
    /\ UNCHANGED <<mode, users, products, disk>>
    /\ Handled

\* catalog: save o.xml
SaveProducts ==
    /\ mode = "catalog"
    /\ ReadCommand
    /\ disk' = ProductStorage_save(products)
    /\ last' = Call("save_products", F_out, NoText, NoText, FALSE, Return(NoText, NoText))
    /\ UNCHANGED <<mode, users, products>>
    /\ Handled

\* catalog: load <file>
LoadProducts(filename) ==
    /\ mode = "catalog"
    /\ ReadCommand
    /\ LET r == catalog_load_command(products, lower(filename),
                                     ProductFileAt(disk, lower(filename)))
       IN  /\ Len(r.products) <= MaxProducts
           /\ products' = r.products
           /\ last' = Call("load_products", lower(filename), NoText, NoText, FALSE, r.result)
    /\ UNCHANGED <<mode, users, disk>>
    /\ Handled

\* exit: the branch ends with break
Exit ==
    /\ ReadCommand
    /\ last' = Call("exit", NoText, NoText, NoText, FALSE, Return(NoText, NoText))
    /\ UNCHANGED <<mode, users, products, disk>>
    /\ Handled

\* Ctrl+C while input() waits: KeyboardInterrupt is raised in the try
Interrupt ==
    /\ ReadCommand
    /\ last' = Call("interrupt", NoText, NoText, NoText, FALSE,
                    Raise("KeyboardInterrupt", NoText, "interrupted"))
    /\ UNCHANGED <<mode, users, products, disk>>
    /\ Handled

\* A command none of the branches takes, such as "frob":
\* raise UnknownCommandError(command)
Unknown(command) ==
    /\ ReadCommand
    /\ last' = Call("unknown", command, NoText, NoText, FALSE,
                    Raise("UnknownCommandError", command, "unknown command"))
    /\ UNCHANGED <<mode, users, products, disk>>
    /\ Handled

\* The logins the commands of the secure manager look up: one that add
\* accepts and the files hold, one that add accepts and no file holds.
Lookups == {K_abc, K_zeb}

\* The prefixes the select command is given: "ab", "A" and "zeb".
Prefixes == {K_ab, <<65>>, K_zeb}

Next ==
    \/ \E login \in Keys : Add(login)
    \/ \E login \in Keys, password \in {PASSWORD123, P_letmein} : Auth(login, password)
    \/ \E login \in Keys : Logout(login)
    \/ \E login \in Keys : Access(login)
    \/ \E prefix \in Prefixes : Select(prefix)
    \/ Save
    \/ \E filename \in FileNames : Load(filename)
    \/ \E login \in Keys, password \in Passwords : AddUser(login, password)
    \/ \E login \in Lookups, password \in Passwords : AuthUser(login, password)
    \/ \E login \in Lookups : LogoutUser(login)
    \/ \E login \in Lookups : AccessUser(login)
    \/ \E login \in Lookups, old \in Passwords, new \in Passwords : ChangePass(login, old, new)
    \/ List
    \/ SaveUsers
    \/ \E filename \in FileNames : LoadUsers(filename)
    \/ \E name \in {N_Tea, N_ctl}, store \in {S_lenta, S_Ashan},
          text \in {P_10_5, P_0, P_NaN, P_word} :
          AddProduct(name, store, text)
    \/ \E store \in {S_ASHAN, S_dixy} : SelectStore(store)
    \/ SaveProducts
    \/ \E filename \in ProductFileNames : LoadProducts(filename)
    \/ Exit
    \/ Interrupt
    \/ \E command \in {<<102, 114, 111, 98>>} : Unknown(command)

Spec == Init /\ [][Next]_vars

----------------------------------------------------------------------------
(* The claims *)

\* The User the manager's lookup of the last call found, in list us.
Found(us) == us[first_index(us, last.key)]

\* Whether the manager that runs accepts password c for User u.
Verifies(u, c) == IF mode = "plain" THEN c = PASSWORD123 ELSE verify_password(u, c)

\* How many times x occurs in the list s.
Count(s, x) == Cardinality({i \in DOMAIN s : s[i] = x})

\* Whether two lists hold the same records, each as many times.
SameRecords(a, b) ==
    /\ Len(a) = Len(b)
    /\ \A i \in DOMAIN a : Count(a, a[i]) = Count(b, a[i])

\* The record elements of the file the last load read that set the login
\* and an authenticated flag of 'true' (in any case of the letters).
ReadsTrue(file, login) ==
    \E i \in DOMAIN file.root :
        /\ last_text(file.root[i], "login", None) = login
        /\ last_text(file.root[i], "authenticated", None) # None
        /\ lower(last_text(file.root[i], "authenticated", None)) = T_true

\* C1: no two records of the store have the same login, in every state
\* that add, authenticate, logout, change-credential and load can reach.
C1_UniqueKeys ==
    \A i, j \in DOMAIN users : i # j => users[i].login # users[j].login

\* C2 as stated: a record is authenticated after a command only if the
\* command was a successful authenticate of its login, or was no successful
\* load and a record of that login was authenticated before it (so that a
\* record a load has produced is not authenticated); after a successful add
\* or logout the record of that login is not authenticated.
C2_OnlyByVerification ==
    [][ /\ \A i \in DOMAIN users' :
              users'[i].authenticated =>
                 \/ /\ ~(last'.op = "load" /\ last'.result.kind = "ok")
                    /\ \E j \in DOMAIN users :
                          users[j].login = users'[i].login /\ users[j].authenticated
                 \/ /\ last'.op = "auth"
                    /\ last'.result.kind = "ok"
                    /\ last'.key = users'[i].login
        /\ (last'.op \in {"add", "logout"} /\ last'.result.kind = "ok") =>
              ~users'[first_index(users', last'.key)].authenticated
      ]_vars

\* C2 as amended: as C2, but a successful load gives a record the flag that
\* the file holds for it: a record is authenticated after a load only if a
\* record element of the file with that login reads 'true'.
C2_OnlyByVerificationOrLoad ==
    [][ /\ \A i \in DOMAIN users' :
              users'[i].authenticated =>
                 \/ /\ ~(last'.op = "load" /\ last'.result.kind = "ok")
                    /\ \E j \in DOMAIN users :
                          users[j].login = users'[i].login /\ users[j].authenticated
                 \/ /\ last'.op = "auth"
                    /\ last'.result.kind = "ok"
                    /\ last'.key = users'[i].login
                 \/ /\ last'.op = "load"
                    /\ last'.result.kind = "ok"
                    /\ ReadsTrue(FileAt(mode, disk, last'.key), users'[i].login)
        /\ (last'.op \in {"add", "logout"} /\ last'.result.kind = "ok") =>
              ~users'[first_index(users', last'.key)].authenticated
      ]_vars

\* C2, witness: a load has put an authenticated record into the store.
C2_Witness ==
    /\ last.op = "load"
    /\ last.result.kind = "ok"
    /\ \E i \in DOMAIN users : users[i].authenticated

\* C3 as stated: after add(key, credential) with a key of 3 characters or
\* more (and, secure, a credential of 6 or more), require(key) returns a
\* record with that key that is not authenticated.
C3_AddThenRequire ==
    (/\ last.op = "add"
     /\ Len(last.key) >= 3
     /\ mode = "secure" => Len(last.cred) >= 6)
    => /\ Has(users, last.key)
       /\ Found(users).login = last.key
       /\ ~Found(users).authenticated

\* C3 as amended: the same for a key that was not in the store before the
\* add and that, in the secure manager, is alphanumeric; the add succeeds.
C3_AddNewThenRequire ==
    (/\ last.op = "add"
     /\ Len(last.key) >= 3
     /\ ~last.found
     /\ mode = "secure" => (isalnum(last.key) /\ Len(last.cred) >= 6))
    => /\ last.result = Return(last.key, NoText)
       /\ Has(users, last.key)
       /\ Found(users).login = last.key
       /\ ~Found(users).authenticated

\* C3, witness: an add has succeeded.
C3_Witness ==
    /\ last.op = "add"
    /\ last.result.kind = "ok"
    /\ Has(users, last.key)

\* C4 as stated: add with a key that is in the store fails with the
\* duplicate-key failure, whatever the credential, and changes nothing.
C4_DuplicateAlways ==
    [][ (last'.op = "add" /\ last'.found) =>
            /\ last'.result = Raise("InvalidLoginError", last'.key, "login exists")
            /\ users' = users
      ]_vars

\* C4 as amended: add with a key that is in the store fails and changes
\* nothing; the failure is the duplicate-key failure exactly when the key
\* and the credential pass the checks add makes before it looks for the key
\* (3 characters or more; secure: alphanumeric, credential of 6 or more).
C4_DuplicateAfterValidation ==
    [][ (last'.op = "add" /\ last'.found) =>
            /\ last'.result.kind # "ok"
            /\ users' = users
            /\ (last'.result = Raise("InvalidLoginError", last'.key, "login exists"))
                  <=> (/\ Len(last'.key) >= 3
                       /\ mode = "secure" =>
                             (isalnum(last'.key) /\ Len(last'.cred) >= 6))
      ]_vars

\* C4, witness: an add of a key that is in the store has failed with the
\* duplicate-key failure.
C4_Witness ==
    /\ last.op = "add"
    /\ last.found
    /\ last.result.msg = "login exists"

\* C5: authenticate(key, c) with the correct credential c of a record of
\* the store with that key succeeds and leaves that record authenticated.
C5_CorrectCredential ==
    [][ last'.op = "auth" =>
            \A i \in DOMAIN users :
                (users[i].login = last'.key /\ Verifies(users[i], last'.cred)) =>
                    /\ last'.result.kind = "ok"
                    /\ users'[i].authenticated
      ]_vars

\* C6: authenticate(key, c) with a credential that does not verify for the
\* record looked up fails with InvalidLoginError(key, 'неверный пароль') and
\* leaves the store, and so the record's flag, as it was.
C6_WrongCredential ==
    [][ (/\ last'.op = "auth"
         /\ last'.found
         /\ ~Verifies(users[first_index(users, last'.key)], last'.cred)) =>
            /\ last'.result = Raise("InvalidLoginError", last'.key, "wrong password")
            /\ users' = users
      ]_vars

\* C6, witness: an authenticate has failed on a record that is authenticated.
C6_Witness ==
    /\ last.op = "auth"
    /\ last.result.msg = "wrong password"
    /\ Found(users).authenticated

\* C7: access on a record fails with UnauthorizedAccessError carrying the
\* login exactly when the record is not authenticated, returns a message
\* that contains the login exactly when it is, and changes nothing.
C7_Access ==
    [][ (last'.op = "access" /\ last'.found) =>
            LET u == users[first_index(users, last'.key)]
            IN  /\ users' = users
                /\ (last'.result = Raise("UnauthorizedAccessError", u.login, "access denied"))
                      <=> ~u.authenticated
                /\ (last'.result.kind = "ok" /\ Contains(last'.result.text, u.login))
                      <=> u.authenticated
      ]_vars

\* C7, witness: an access has been granted.
C7_Witness ==
    /\ last.op = "access"
    /\ last.result.kind = "ok"
    /\ Found(users).authenticated

\* The manager's logout of this login.
LogoutOf(us, login) == IF mode = "plain" THEN logout(us, login) ELSE logout_user(us, login)

\* C8: logout of a record succeeds and leaves it not authenticated, and a
\* second logout succeeds too and leaves the store as the first left it.
C8_LogoutIdempotent ==
    [][ (last'.op = "logout" /\ last'.found) =>
            /\ last'.result.kind = "ok"
            /\ ~users'[first_index(users, last'.key)].authenticated
            /\ LogoutOf(users', last'.key).result.kind = "ok"
            /\ LogoutOf(users', last'.key).users = users'
      ]_vars

\* C8, witness: a logout has succeeded and the record is not authenticated.
C8_Witness ==
    /\ last.op = "logout"
    /\ last.result.kind = "ok"
    /\ ~Found(users).authenticated

\* C9: a load of o.xml that follows a save succeeds and leaves the store
\* with the records it held: none lost, added or altered.
C9_RoundTrip ==
    [][ (last.op = "save" /\ last'.op = "load" /\ last'.key = F_out) =>
            /\ last'.result.kind = "ok"
            /\ SameRecords(users', users)
      ]_vars

\* C10: the list of the store is sorted in ascending order of login.
C10_Sorted ==
    \A i \in 1..(Len(users) - 1) : ~StrLess(users[i + 1].login, users[i].login)

C12_SelectByPrefix ==
    [][ last'.op = "select" =>
            LET rows == last'.rows
            IN  /\ users' = users
                /\ \E f \in [DOMAIN rows -> DOMAIN users] :
                      /\ \A i, j \in DOMAIN rows : i < j => f[i] < f[j]
                      /\ \A i \in DOMAIN rows : rows[i] = users[f[i]]
                      /\ \A j \in DOMAIN users :
                            startswith(users[j].login, last'.key)
                               <=> \E i \in DOMAIN rows : f[i] = j
                /\ \A i \in 1..(Len(rows) - 1) :
                      ~StrLess(rows[i + 1].login, rows[i].login)
      ]_vars

\* C12, witness: a select has returned one of the two records of the store.
C12_Witness ==
    /\ last.op = "select"
    /\ Len(users) = 2
    /\ Len(last.rows) = 1

\* C13: load of a file that does not exist or that is not well-formed XML
\* fails with DataFormatError, built with the name of the file, and the
\* message of the failure (its str) contains the name of the file.
C13_LoadFailureNamesFile ==
    (last.op = "load" /\ ET_parse(FileAt(mode, disk, last.key)) # "ok") =>
        /\ last.result.kind = "DataFormatError"
        /\ last.result.who = last.key
        /\ Contains(last.result.text, last.key)

\* C13, witness: a load of the file that holds no XML has failed.
C13_Witness ==
    /\ last.op = "load"
    /\ last.key = F_text
    /\ last.result.kind = "DataFormatError"

\* C14: the message of the DataFormatError that load raises for a file
\* whose content is not well-formed XML contains 'некорректный формат
\* данных'.
C14_DefaultMessage ==
    (/\ last.op = "load"
     /\ FileAt(mode, disk, last.key).kind # "missing"
     /\ ET_parse(FileAt(mode, disk, last.key)) = "ParseError") =>
        /\ last.result.kind = "DataFormatError"
        /\ Contains(last.result.text, M_default)

\* Whether a record element has no child `tag` with text in it.
Lacks(elem, tag) == \A j \in DOMAIN elem : elem[j].tag = tag => elem[j].data = << >>

\* C15: in the secure manager, the load of a well-formed file in which some
\* record element lacks a non-empty login, password_hash or salt fails with
\* DataFormatError: UserStorage.load returns no record, also when other
\* record elements are complete, and the store is left as it was.
C15_IncompleteFailsLoad ==
    [][ (/\ mode = "secure"
         /\ last'.op = "load"
         /\ ET_parse(FileAt(mode, disk, last'.key)) = "ok"
         /\ \E i \in DOMAIN FileAt(mode, disk, last'.key).root :
               \E tag \in {"login", "password_hash", "salt"} :
                  Lacks(FileAt(mode, disk, last'.key).root[i], tag)) =>
            /\ last'.result.kind = "DataFormatError"
            /\ last'.result.who = last'.key
            /\ UserStorage_load(last'.key, FileAt(mode, disk, last'.key)).users = << >>
            /\ users' = users
      ]_vars

\* C15, witness: the load of h.xml, whose first record element is complete
\* and whose second has no salt, has failed while the store held a record.
C15_Witness ==
    /\ mode = "secure"
    /\ last.op = "load"
    /\ last.key = F_hand
    /\ last.result.msg = "incomplete user"
    /\ Len(users) > 0

\* C16: in the plain manager the load of a well-formed file succeeds and
\* the store then holds one record for every record element that has a
\* non-empty login, with that login, and no other record: the elements
\* without a login are skipped, the others are loaded.
C16_SkipsWithoutLogin ==
    (/\ mode = "plain"
     /\ last.op = "load"
     /\ ET_parse(FileAt(mode, disk, last.key)) = "ok") =>
        LET root == FileAt(mode, disk, last.key).root
            with == {i \in DOMAIN root : ~Lacks(root[i], "login")}
        IN  /\ last.result.kind = "ok"
            /\ Len(users) = Cardinality(with)
            /\ \A i \in with :
                  \E j \in DOMAIN users :
                     users[j].login = last_text(root[i], "login", None)
            /\ \A j \in DOMAIN users :
                  \E i \in with :
                     users[j].login = last_text(root[i], "login", None)

\* C16, witness: the load of h.xml, which has an element without a login,
\* one with the login "ab" and one with an empty login, has left one record.
C16_Witness ==
    /\ mode = "plain"
    /\ last.op = "load"
    /\ last.key = F_hand
    /\ last.result.kind = "ok"
    /\ Len(users) = 1
    /\ users[1].login = K_ab

\* The record elements of a parsed root that set this login, in their order.
ElemsOf(root, login) == SelectSeq(root, LAMBDA e : last_text(e, "login", None) = login)

\* The records of a list with this login, in their order.
UsersOf(us, login) == SelectSeq(us, LAMBDA u : u.login = login)

\* The logins the record elements of a parsed root set.
LoginsOf(root) == {last_text(root[i], "login", None) : i \in DOMAIN root} \ {None}

\* Whether nothing but the authenticated fields can make the load of the
\* file fail: it is well-formed and, for the secure manager, every record
\* element has a login, a hash and a salt.
Loadable(file) ==
    /\ ET_parse(file) = "ok"
    /\ mode = "secure" =>
          \A i \in DOMAIN file.root :
             \A tag \in {"login", "password_hash", "salt"} : ~Lacks(file.root[i], tag)

\* C17 as stated: the load of a file that is loadable but for its
\* authenticated fields succeeds, and a record whose element has an
\* authenticated field that is neither 'true' nor 'false' (empty and absent
\* fields among them) is loaded with authenticated == false.
C17_OddFlagIsFalse ==
    (last.op = "load" /\ Loadable(FileAt(mode, disk, last.key))) =>
        LET root == FileAt(mode, disk, last.key).root
        IN  /\ last.result.kind = "ok"
            /\ \A login \in LoginsOf(root) :
                  /\ Len(UsersOf(users, login)) = Len(ElemsOf(root, login))
                  /\ \A k \in DOMAIN ElemsOf(root, login) :
                        last_text(ElemsOf(root, login)[k], "authenticated", None)
                              \notin {T_true, T_false}
                           => ~UsersOf(users, login)[k].authenticated

\* C17 as amended: the same for an authenticated field that is neither
\* 'true' nor 'false' in any case of the letters.
C17_OddFlagIsFalseAnyCase ==
    (last.op = "load" /\ Loadable(FileAt(mode, disk, last.key))) =>
        LET root == FileAt(mode, disk, last.key).root
            flag(e) == last_text(e, "authenticated", None)
        IN  /\ last.result.kind = "ok"
            /\ \A login \in LoginsOf(root) :
                  /\ Len(UsersOf(users, login)) = Len(ElemsOf(root, login))
                  /\ \A k \in DOMAIN ElemsOf(root, login) :
                        (flag(ElemsOf(root, login)[k]) = None
                            \/ lower(flag(ElemsOf(root, login)[k])) \notin {T_true, T_false})
                           => ~UsersOf(users, login)[k].authenticated

\* C17, witness: the load of f.xml, with the flag "yes" in one record
\* element and no flag in the other, has left two records.
C17_Witness ==
    /\ last.op = "load"
    /\ last.key = F_flag
    /\ last.result.kind = "ok"
    /\ Len(users) = 2
    /\ ~users[1].authenticated
    /\ ~users[2].authenticated

\* C18: change_credential(old, new) with the correct old credential of the
\* record and a new credential shorter than 6 characters fails with
\* InvalidPasswordError; the record keeps its hash and salt (the store is
\* as it was), so the old credential verifies as before.
C18_WeakNewCredential ==
    [][ (/\ last'.op = "changepass"
         /\ last'.found
         /\ verify_password(users[first_index(users, last'.key)], last'.cred)
         /\ Len(last'.new) < 6) =>
            LET i == first_index(users, last'.key)
            IN  /\ last'.result = Raise("InvalidPasswordError", NoText, "password too short")
                /\ users'[i].password_hash = users[i].password_hash
                /\ users'[i].salt = users[i].salt
                /\ users' = users
                /\ verify_password(users'[i], last'.cred)
      ]_vars

\* C18, witness: a change to a password of 3 characters has failed with
\* InvalidPasswordError.
C18_Witness ==
    /\ last.op = "changepass"
    /\ Len(last.new) = 3
    /\ last.result.kind = "InvalidPasswordError"
    /\ verify_password(Found(users), last.cred)

\* C19 as stated: after a successful change_credential(old, new) of a
\* record, authenticate with old fails with InvalidLoginError(login, 'неверный
\* пароль') and authenticate with new succeeds and authenticates the record.
C19_OldFailsNewSucceeds ==
    [][ (last'.op = "changepass" /\ last'.result.kind = "ok") =>
            LET i == first_index(users', last'.key)
            IN  /\ authenticate_user(users', last'.key, last'.cred).result
                      = Raise("InvalidLoginError", last'.key, "wrong password")
                /\ authenticate_user(users', last'.key, last'.new).result.kind = "ok"
                /\ authenticate_user(users', last'.key, last'.new).users[i].authenticated
      ]_vars

\* C19 as amended: the same when the new credential differs from the old.
C19_OldFailsNewSucceedsWhenChanged ==
    [][ (/\ last'.op = "changepass"
         /\ last'.result.kind = "ok"
         /\ last'.new # last'.cred) =>
            LET i == first_index(users', last'.key)
            IN  /\ authenticate_user(users', last'.key, last'.cred).result
                      = Raise("InvalidLoginError", last'.key, "wrong password")
                /\ authenticate_user(users', last'.key, last'.new).result.kind = "ok"
                /\ authenticate_user(users', last'.key, last'.new).users[i].authenticated
      ]_vars

\* C19, witness: a password has been changed to a different one.
C19_Witness ==
    /\ last.op = "changepass"
    /\ last.result.kind = "ok"
    /\ last.new # last.cred
    /\ verify_password(Found(users), last.new)

\* C20 as stated: after a successful change_credential the salt of the
\* record is one generate_salt returns and differs from the salt the record
\* had, and the hash is the hash of the new credential with the new salt.
C20_SaltDiffers ==
    [][ (last'.op = "changepass" /\ last'.result.kind = "ok") =>
            LET i == first_index(users, last'.key)
            IN  /\ users'[i].salt \in generate_salt
                /\ users'[i].salt # users[i].salt
                /\ users'[i].password_hash = hash_password(last'.new, users'[i].salt)
      ]_vars

\* C20 as amended: after a successful change_credential the salt of the
\* record is the value generate_salt returned in that call, a str of 16
\* characters drawn anew, and the hash is the hash of the new credential
\* with that salt; the draw is not compared with the salt the record had.
C20_SaltDrawnAnew ==
    [][ (last'.op = "changepass" /\ last'.result.kind = "ok") =>
            LET i == first_index(users, last'.key)
            IN  /\ last'.salt \in generate_salt
                /\ Len(last'.salt) = SaltLength
                /\ users'[i].salt = last'.salt
                /\ users'[i].password_hash = hash_password(last'.new, last'.salt)
      ]_vars

\* C20, witness: a password has been changed and the record holds the salt
\* that was drawn for the change.
C20_Witness ==
    /\ last.op = "changepass"
    /\ last.result.kind = "ok"
    /\ Found(users).salt = last.salt
    /\ Found(users).password_hash = hash_password(last.new, last.salt)

\* price > 0 for a float: False for nan
gt_zero(price) == price.kind = "num" /\ price.tenths > 0

\* C22: every product of the catalog has price > 0, in every state that add
\* and load can reach: an add with a price <= 0 fails with InvalidPriceError
\* and a load of a file with a price <= 0 fails with DataFormatError, both
\* leaving the catalog as it was.
C22_PricePositive ==
    /\ \A i \in DOMAIN products : gt_zero(products[i].price)
    /\ (/\ last.op = "add_product"
        /\ float(last.new).error = ""
        /\ le_zero(float(last.new).value)) =>
           last.result.kind = "InvalidPriceError"
    /\ (/\ last.op = "load_products"
        /\ last.key \in {F_zero, F_neg}) =>
           last.result.kind = "DataFormatError"

SortedByStore(ps) ==
    \A i \in 1..(Len(ps) - 1) : ~StrLess(ps[i + 1].store, ps[i].store)

\* C24: after every successful ProductCatalog.add, whatever adds came
\* before, the products of the catalog are in ascending order of the stores.
C24_SortedByStore ==
    (last.op = "add_product" /\ last.result.kind = "ok") => SortedByStore(products)

\* C24, witness: an add has put its product before the one that was there.
C24_Witness ==
    /\ last.op = "add_product"
    /\ last.result.kind = "ok"
    /\ Len(products) = 2
    /\ products[1].store = last.cred
    /\ StrLess(products[1].store, products[2].store)

\* C25: ProductStorage.load of the file ProductStorage.save has written
\* returns as many products as were saved, in the same order, each with the
\* same name, store and price.
C25_ProductRoundTrip ==
    last.op = "save_products" =>
        LET r == ProductStorage_load(F_out, disk)
        IN  /\ r.result.kind = "ok"
            /\ Len(r.products) = Len(products)
            /\ \A i \in DOMAIN products :
                  /\ r.products[i].name = products[i].name
                  /\ r.products[i].store = products[i].store
                  /\ r.products[i].price = products[i].price

\* Whether a product element lacks a name, a store or a price, or has a
\* price that is no number.
Defective(elem) ==
    \/ \E tag \in {"name", "store", "price"} : find_text(elem, tag) = Missing
    \/ float(find_text(elem, "price")).error # ""

\* C26: ProductStorage.load of a file in which some product element lacks a
\* name, a store or a price, or has a price that is not a number, fails with
\* DataFormatError whose message contains "ошибка данных", and the catalog
\* gets no part of the file.
C26_DefectiveFailsLoad ==
    [][ (/\ last'.op = "load_products"
         /\ ET_parse(ProductFileAt(disk, last'.key)) = "ok"
         /\ \E i \in DOMAIN ProductFileAt(disk, last'.key).root :
               Defective(ProductFileAt(disk, last'.key).root[i]))
        => /\ last'.result.kind = "DataFormatError"
           /\ Contains(last'.result.text, M_data)
           /\ products' = products
      ]_vars

\* C27: authenticate, logout, change of the password and access of the
\* manager, called with a login that no record of the store has, fail with
\* InvalidLoginError "пользователь не найден" carrying that login, and leave
\* every record of the store as it was.
C27_MissingKey ==
    [][ (/\ last'.op \in {"auth", "logout", "changepass", "access"}
         /\ ~Has(users, last'.key))
        => /\ last'.result = Raise("InvalidLoginError", last'.key, "user not found")
           /\ users' = users
      ]_vars

\* C27, witness: a change of the password has been asked for a login the
\* store, which holds a record, does not have.
C27_Witness ==
    /\ last.op = "changepass"
    /\ Len(users) > 0
    /\ ~Has(users, last.key)
    /\ last.result.kind = "InvalidLoginError"
    /\ last.result.who = K_zeb

\* What a record is known by: its login, and in the secure manager its
\* password hash and its salt.
Identity(u) ==
    IF mode = "secure" THEN <<u.login, u.password_hash, u.salt>> ELSE <<u.login>>

\* C28: the login of a record never changes, and its password hash and salt
\* change only by a successful change of the password of that record:
\* authenticate, logout, access, a failed change of the password, the
\* selections and save leave the login, the hash and the salt of every
\* record as they were, a successful change of the password leaves every
\* login and the hash and salt of every other record as they were, and the
\* list command, which sorts the list it prints, keeps every record.
C28_KeyHashSaltFrame ==
    [][ /\ (\/ last'.op \in {"auth", "logout", "access", "select", "save"}
            \/ (last'.op = "changepass" /\ last'.result.kind # "ok"))
           => /\ Len(users') = Len(users)
              /\ \A i \in DOMAIN users : Identity(users'[i]) = Identity(users[i])
        /\ (last'.op = "changepass" /\ last'.result.kind = "ok")
           => /\ Len(users') = Len(users)
              /\ \A i \in DOMAIN users :
                    /\ users'[i].login = users[i].login
                    /\ i # first_index(users, last'.key)
                          => Identity(users'[i]) = Identity(users[i])
        /\ last'.op = "list"
           => /\ Len(users') = Len(users)
              /\ \E f \in [DOMAIN users -> DOMAIN users] :
                    /\ \A i, j \in DOMAIN users : i # j => f[i] # f[j]
                    /\ \A i \in DOMAIN users : users'[i] = users[f[i]]
      ]_vars

\* C28, witness: a logout has been done on a record of the secure manager
\* of two records, which keeps the hash and the salt it was given.
C28_Witness ==
    /\ mode = "secure"
    /\ last.op = "logout"
    /\ last.result.kind = "ok"
    /\ Len(users) = 2
    /\ ~Found(users).authenticated
    /\ verify_password(Found(users), P_letmein)

\* C30: a successful change of the password leaves the authenticated flag
\* of the record as it was (a record that was authenticated stays so, with
\* no verification of the new password, and one that was not stays so), and
\* modifies no other record of the store.
C30_ChangeKeepsFlag ==
    [][ (last'.op = "changepass" /\ last'.result.kind = "ok")
        => LET i == first_index(users, last'.key)
           IN  /\ Len(users') = Len(users)
               /\ users'[i].authenticated = users[i].authenticated
               /\ \A j \in DOMAIN users : j # i => users'[j] = users[j]
      ]_vars

\* C30, witness: the password of an authenticated record has been changed
\* in a store of two records, and the record is authenticated.
C30_Witness ==
    /\ last.op = "changepass"
    /\ last.result.kind = "ok"
    /\ Len(users) = 2
    /\ Found(users).authenticated
    /\ Found(users).password_hash = hash_password(last.new, last.salt)

C21_LoopSurvivesFailures ==
    [][ /\ (last'.result.kind \notin {"ok", "KeyboardInterrupt"}) => loop' = "running"
        /\ loop' = "ended" => last'.op \in {"exit", "interrupt"}
      ]_vars

\* C21, witness: the catalog's load has raised TypeError, which no except
\* clause names, and the loop runs; it had read a command before.
C21_Witness ==
    /\ mode = "catalog"
    /\ last.op = "load_products"
    /\ last.result.kind = "TypeError"
    /\ loop = "running"
    /\ steps > 1

====
